---- MODULE Spec2Model ----
(***************************************************************************)
(* pyquickcheck: the property runner (quickcheck.inner), the minimizer     *)
(* (_quickcheck_minimize), integer generation and integer shrinking.       *)
(*                                                                         *)
(* A run is one call of the wrapped property.  The property function f is  *)
(* an input: every invocation of f either returns a truthy value, a falsy  *)
(* non-None value or None, or raises an exception of some class.  From    *)
(* the trial whose call raises on, whether f raises may be a function of   *)
(* its keyword arguments (every deterministic property is such an f; prop  *)
(* records which arguments made it raise what) or not (an f that draws     *)
(* random values itself, as the properties of quickcheck/tests do).        *)
(***************************************************************************)
EXTENDS Integers, Sequences, FiniteSets, TLC

(***************************************************************************)
(* Bounds of the model.                                                    *)
(***************************************************************************)
MaxTries == 2
MaxMaxSize == 2
MaxDiscardRatio == 2
DistSteps == 20
MaxEntries == 3
MaxDepth == 2
MaxSizeArg == 1
MaxInt == 5
MaxElem == 1
MaxLen == 3
MaxYields == 6
MaxStreams == 3
MaxStreamLen == 3
MaxBound == 3
MaxGenSize == 2
Unit == 2
DefaultFloatSize == 65535
DefaultListSize == 30

(***************************************************************************)
(* Python values.  None as an optional argument is the empty sequence, a   *)
(* given value v is <<v>>.                                                 *)
(***************************************************************************)
None == <<>>
Some(v) == <<v>>
IsNone(o) == o = <<>>
Val(o) == o[1]

Abs(n) == IF n < 0 THEN -n ELSE n

\* math.trunc(a / b) for b > 0: the quotient rounded toward zero
Trunc(a, b) == IF a >= 0 THEN a \div b ELSE -((-a) \div b)

\* int(round(num / den)) for den > 0: Python 3 rounds halves to the even integer
Round(num, den) ==
  LET q == num \div den
      r == num % den
  IN  IF 2 * r < den THEN q
      ELSE IF 2 * r > den THEN q + 1
      ELSE IF q % 2 = 0 THEN q ELSE q + 1

(***************************************************************************)
(* Dictionaries (keyword arguments, the Used-Arguments Map) are functions  *)
(* from names to values.                                                   *)
(***************************************************************************)
EmptyDict == [n \in {} |-> 0]

\* d1.copy() followed by .update(d2)
Update(d1, d2) ==
  [n \in (DOMAIN d1) \cup (DOMAIN d2) |-> IF n \in DOMAIN d2 THEN d2[n] ELSE d1[n]]

\* d[name] = v
SetItem(d, name, v) ==
  [n \in (DOMAIN d) \cup {name} |-> IF n = name THEN v ELSE d[n]]

(***************************************************************************)
(* Exceptions a property may raise.  UnicodeError is a subclass of         *)
(* ValueError, the other classes are unrelated; `except exctype` catches   *)
(* an exception whose class is exctype or a subclass of it.                *)
(***************************************************************************)
Exceptions == {"AssertionError", "ValueError", "UnicodeError"}

IsInstance(e, exctype) ==
  \/ e = exctype
  \/ e = "UnicodeError" /\ exctype = "ValueError"

\* what an invocation of the property can do
Returns == {"True", "False", "None"}
Outcomes == Returns \cup Exceptions

(***************************************************************************)
(* shrink_int: the candidates of shrink(v) for an integer v, in the order  *)
(* the generator yields them.                                              *)
(***************************************************************************)
\* a shrink_int without the halving loop
shrink_int_halves_none(v, i) == <<>>

RECURSIVE shrink_int_halves(_, _)
\* the `while True` loop of shrink_int, entered with the current i
shrink_int_halves(v, i) ==
  LET i2 == Trunc(i, 2)
  IN  IF Abs(v - i2) < Abs(v)
        THEN <<v - i2>> \o shrink_int_halves(v, i2)
        ELSE <<>>

shrink_int(v) ==
  (IF v < 0 THEN <<-v>> ELSE <<>>)
    \o (IF v # 0 THEN <<0>> ELSE <<>>)
    \o shrink_int_halves(v, v)

\* shrink(v): every value of the runner model is an int, so the shrink
\* registry dispatches to shrink_int
shrink(v) == shrink_int(v)

(***************************************************************************)
(* roundrobin: its[k] is what is left of the k-th iterable, in the cyclic  *)
(* order in which the iterables are visited next.  An exhausted iterable   *)
(* is dropped, any other yields its head and goes to the back.             *)
(***************************************************************************)
\* a round robin that stops at the first exhausted iterable
RECURSIVE roundrobin_stops(_)
roundrobin_stops(its) ==
  IF its = <<>> \/ Head(its) = <<>> THEN <<>>
  ELSE <<Head(Head(its))>> \o roundrobin_stops(Tail(its) \o <<Tail(Head(its))>>)

RECURSIVE roundrobin(_)
roundrobin(its) ==
  IF its = <<>> THEN <<>>
  ELSE IF Head(its) = <<>> THEN roundrobin(Tail(its))
  ELSE <<Head(Head(its))>> \o roundrobin(Tail(its) \o <<Tail(Head(its))>>)

(***************************************************************************)
(* Integer(min, max, add_sign): a bounded-integer descriptor.  The builtin *)
(* type int is generated as Integer().                                     *)
(***************************************************************************)
Integer(min, max) == [min |-> min, max |-> max, add_sign |-> TRUE]

\* Float.arbitrary up to the clamp: the (mult, add, add_sign) it draws with;
\* sign is the result of random.choice([-1, 1])
FloatScale(spec, size, sign) ==
  LET add_sign == IsNone(spec.min) /\ IsNone(spec.max) /\ spec.add_sign
      add == IF ~IsNone(spec.min) THEN Val(spec.min)
             ELSE IF ~IsNone(spec.max) THEN Val(spec.max)
             ELSE 0
      mult0 == IF ~IsNone(spec.min)
                 THEN (IF ~IsNone(spec.max) THEN Val(spec.max) - Val(spec.min) ELSE size)
               ELSE IF ~IsNone(spec.max) THEN -size
               ELSE size
      mult1 == IF add_sign THEN mult0 * sign ELSE mult0
      mult == IF mult1 > size THEN size
              ELSE IF mult1 < -size THEN -size
              ELSE mult1
  IN  [mult |-> mult, add |-> add, add_sign |-> add_sign]

\* The draw d stands for distribution() = d / DistSteps, a value of [0, 1).
\* f = dist * mult + add is kept as the numerator of a fraction over DistSteps.
FloatDraw(spec, size, sign, d) ==
  LET sc == FloatScale(spec, size, sign)
  IN  d * sc.mult + sc.add * DistSteps

\* the draw is returned (TRUE) or rejected and redrawn (FALSE)
FloatAccepts(spec, f) ==
  /\ IsNone(spec.max) \/ ~(f > Val(spec.max) * DistSteps)
  /\ IsNone(spec.min) \/ ~(f < Val(spec.min) * DistSteps)

\* Integer.arbitrary(size): the values int(round(...)) can return
IntegerArbitrary(spec, size) ==
  { Round(FloatDraw(spec, size, sign, d), DistSteps) :
      <<sign, d>> \in { sd \in {-1, 1} \X (0 .. DistSteps - 1) :
                          FloatAccepts(spec, FloatDraw(spec, size, sd[1], sd[2])) } }

\* arbitrary(spec, size=size) for the descriptor of a property parameter
arbitrary(spec, size) == IntegerArbitrary(spec, size)

(***************************************************************************)
(* The state of one run of the wrapped property, quickcheck(...)(f) called *)
(* with keyword arguments, and of what the run is built on.                *)
(***************************************************************************)
VARIABLES
  tries,              \* decorator argument
  max_size,           \* decorator argument
  max_discard_ratio,  \* decorator argument
  annotations,        \* f.__annotations__: sequence of [name, spec], in declaration order
  kwargs,             \* keyword arguments the caller passed to the wrapped property
  f,                  \* the property function: "any" function, or a given one
  deterministic,      \* whether equal arguments make f raise equally
  prop,               \* deterministic f, from the raising trial on: by keyword
                      \* arguments, the exception it raised or "returns"
  i,                  \* inner: trial index
  successes,          \* inner: trials counted as successes
  discards,           \* inner: trials counted as discards
  size,               \* inner: size of the current trial
  kwargs_new,         \* inner: keyword arguments of the current trial
  used,               \* inner / _quickcheck_minimize: the Used-Arguments Map
  ret,                \* inner: the local ret ("unbound" until first assigned)
  reemit_error,       \* inner: the local reemit_error
  exctype,            \* _quickcheck_minimize of the current trial: the class to preserve
  cands,              \* _quickcheck_minimize: what is left of the roundrobin stream
  pc,                 \* position of the run in inner
  outcome,            \* how the call of the wrapped property ended
  error_args,         \* the argument of the QuickCheckError raised, if any
  lastcall,           \* keyword arguments of the latest invocation of f
  gen_size,           \* the size each parameter of the current trial was generated with
  used0,              \* the Used-Arguments Map the current trial raised with
  raised,             \* whether the property call of the current trial raised
  true_returns,       \* number of trial calls that returned a truthy value
  false_returns,      \* number of trial calls that returned a falsy value, not None
  started,            \* number of trials started
  generic,            \* a SingleDispatchGeneric: its dispatcher and its default checker
  implementations,    \* SingleDispatchGeneric.implementations
  dispatched,         \* the latest call of the generic function, if any
  thread_locals,      \* interface.thread_locals: by namespace, the attribute
                      \* _quickcheck_arbitrary_size (whether it is set, and its value)
  frames,             \* by thread, the thread_local blocks it is in, outermost first
  unwinding,          \* by thread, whether an exception is propagating in it
  ended,              \* by thread, the block that ended last, until the next is entered
  request,            \* a call shrink(v): the module called, the type of v, and v
  shrink_pc,          \* position of the generator the call returned
  shrink_i,           \* shrink_int: the local i
  yielded,            \* the candidates the generator has yielded so far
  iterables,          \* roundrobin: its arguments, each a finite sequence
  taken,              \* roundrobin: by iterable, how many elements its iterator has given
  pending,            \* roundrobin: the local pending
  nexts,              \* roundrobin: the iterables in the order the cycle calls them next
  emitted,            \* roundrobin: the elements yielded so far
  robin_pc,           \* roundrobin: "run" inside the while loop, "done" after it
  ctor,               \* a constructor call of a descriptor class: the class and its arguments
  descriptor,         \* the object the constructor call returned, if it returned
  arb_call,           \* arbitrary(descriptor, size=...): the size argument and the
                      \* ambient size at the call
  arb_locals,         \* Float.arbitrary: its parameter size and its locals
  arb_f,              \* Float.arbitrary: the local f of the latest draw
  arb_pc,             \* position of the constructor call and the arbitrary call
  arb_result          \* what arbitrary returned, if it returned

\* the state of the dispatch registry
registry == <<generic, implementations, dispatched>>

\* the state of the ambient size
sizes == <<thread_locals, frames, unwinding, ended>>

\* the state of a shrink request
shrinker == <<request, shrink_pc, shrink_i, yielded>>

\* the state of a roundrobin generator
robin == <<iterables, taken, pending, nexts, emitted, robin_pc>>

\* the state of a descriptor and of a call of arbitrary on it
generation == <<ctor, descriptor, arb_call, arb_locals, arb_f, arb_pc, arb_result>>

\* what a run of the wrapped property leaves alone
others == <<registry, sizes, shrinker, robin, generation>>

\* the state of a run of the wrapped property
runner == <<tries, max_size, max_discard_ratio, annotations, kwargs, f, deterministic,
            prop, i, successes, discards, size, kwargs_new, used, ret, reemit_error,
            exctype, cands, pc, outcome, error_args, lastcall, gen_size, used0,
            raised, true_returns, false_returns, started>>

\* what the registry leaves alone
besidesRegistry == <<runner, sizes, shrinker, robin, generation>>

\* what the ambient size leaves alone
besidesSizes == <<runner, registry, shrinker, robin, generation>>

\* what a shrink request leaves alone
besidesShrinker == <<runner, registry, sizes, robin, generation>>

\* what a roundrobin generator leaves alone
besidesRobin == <<runner, registry, sizes, shrinker, generation>>

\* what a constructor call and a call of arbitrary leave alone
besidesGeneration == <<runner, registry, sizes, shrinker, robin>>

vars == <<runner, others>>

config == <<tries, max_size, max_discard_ratio, annotations, kwargs, f, deterministic>>

\* a generic function nothing is registered with and nobody has called
RegistryIdle ==
  /\ generic = [dispatcher |-> "shrink", checker |-> "isinstance"]
  /\ implementations = <<>>
  /\ dispatched = None

Threads == {"t1", "t2"}

\* no thread has set a size or is in a thread_local block
SizesIdle ==
  /\ thread_locals = [t \in Threads |-> [set |-> FALSE, val |-> None]]
  /\ frames = [t \in Threads |-> <<>>]
  /\ unwinding = [t \in Threads |-> FALSE]
  /\ ended = [t \in Threads |-> None]

\* no generator of shrink is running
ShrinkerIdle ==
  /\ request = [module |-> "quickcheck/implementations.py", type |-> "int", v |-> 0]
  /\ shrink_pc = "done"
  /\ shrink_i = 0
  /\ yielded = <<>>

\* no roundrobin generator is running
RobinIdle ==
  /\ iterables = <<>>
  /\ taken = <<>>
  /\ pending = 0
  /\ nexts = <<>>
  /\ emitted = <<>>
  /\ robin_pc = "done"

\* no descriptor is being constructed or generated from
GenerationIdle ==
  /\ ctor = [cls |-> "Constant", v |-> "0"]
  /\ descriptor = None
  /\ arb_call = None
  /\ arb_locals = None
  /\ arb_f = None
  /\ arb_pc = "idle"
  /\ arb_result = None

\* nothing but the run of the wrapped property is going on
OthersIdle == RegistryIdle /\ SizesIdle /\ ShrinkerIdle /\ RobinIdle /\ GenerationIdle

\* the state of inner right after the three counters are set to 0
InitRun ==
  /\ prop = EmptyDict
  /\ i = 0
  /\ successes = 0
  /\ discards = 0
  /\ size = 0
  /\ kwargs_new = EmptyDict
  /\ used = EmptyDict
  /\ ret = "unbound"
  /\ reemit_error = FALSE
  /\ exctype = "none"
  /\ cands = <<>>
  /\ pc = "loop"
  /\ outcome = "running"
  /\ error_args = EmptyDict
  /\ lastcall = EmptyDict
  /\ gen_size = EmptyDict
  /\ used0 = EmptyDict
  /\ raised = FALSE
  /\ true_returns = 0
  /\ false_returns = 0
  /\ started = 0

\* no wrapped property is running
RunnerIdle ==
  /\ tries = 0
  /\ max_size = 1
  /\ max_discard_ratio = 0
  /\ annotations = <<>>
  /\ kwargs = EmptyDict
  /\ f = "any"
  /\ deterministic = FALSE
  /\ InitRun

\* property(x: Integer(min=-2, max=2), y: Integer(min=0, max=1)), y possibly
\* passed by the caller
Init ==
  /\ tries \in 0 .. MaxTries
  /\ max_size \in 1 .. MaxMaxSize
  /\ max_discard_ratio \in 0 .. MaxDiscardRatio
  /\ annotations = << [name |-> "x", spec |-> Integer(Some(-2), Some(2))],
                      [name |-> "y", spec |-> Integer(Some(0), Some(1))] >>
  /\ kwargs \in {EmptyDict, [n \in {"y"} |-> 1]}
  /\ f = "any"
  /\ deterministic \in BOOLEAN
  /\ InitRun
  /\ OthersIdle

(***************************************************************************)
(* An invocation f(..., kw).                                            *)
(***************************************************************************)
\* what prop records of the answer o
Raising(o) == IF o \in Exceptions THEN o ELSE "returns"

\* the answers f can give to the keyword arguments kw
Answers(kw) ==
  CASE f = "return x < 15" -> { IF kw["x"] < 15 THEN "True" ELSE "False" }
    [] f = "assert x < 15" -> { IF kw["x"] < 15 THEN "True" ELSE "AssertionError" }
    [] OTHER -> IF deterministic /\ kw \in DOMAIN prop
                  THEN { o \in Outcomes : Raising(o) = prop[kw] }
                  ELSE Outcomes

\* f was invoked with kw and answered o; prop is kept from the trial whose
\* call raises on
Invoked(kw, o) ==
  /\ o \in Answers(kw)
  /\ prop' = IF deterministic /\ (pc # "call" \/ o \in Exceptions)
               THEN SetItem(prop, kw, Raising(o))
               ELSE prop
  /\ lastcall' = kw

(***************************************************************************)
(* quickcheck.inner                                                        *)
(***************************************************************************)
\* an inner that generates every annotated parameter
GeneratedNames_all(ann) == [k \in 1 .. Len(ann) |-> ann[k].name]

\* the parameters inner generates: the annotated names the caller did not pass
RECURSIVE GeneratedNames(_)
GeneratedNames(ann) ==
  IF ann = <<>> THEN <<>>
  ELSE (IF Head(ann).name \in DOMAIN kwargs THEN <<>> ELSE <<Head(ann).name>>)
         \o GeneratedNames(Tail(ann))

\* the descriptor a parameter is annotated with
SpecOf(name) ==
  annotations[CHOOSE k \in 1 .. Len(annotations) : annotations[k].name = name].spec

Range(seq) == { seq[k] : k \in 1 .. Len(seq) }

\* a size that stops at max_size instead of wrapping around
trial_size_clamped(k, m) == IF k < m THEN k ELSE m

\* size = i % max_size
trial_size(k, m) == k % m

\* while successes < tries: compute the size, generate every parameter the
\* caller did not pass with arbitrary(spec, size=size)
Generate ==
  /\ pc = "loop"
  /\ successes < tries
  /\ size' = trial_size(i, max_size)
  /\ LET names == Range(GeneratedNames(annotations))
         values == [n \in names |-> arbitrary(SpecOf(n), size')]
     IN  \E u \in [names -> UNION { values[n] : n \in names }] :
           /\ \A n \in names : u[n] \in values[n]
           /\ used' = u
           /\ kwargs_new' = Update(kwargs, u)
           /\ gen_size' = [n \in names |-> size']
  /\ reemit_error' = FALSE
  /\ exctype' = "none"
  /\ cands' = <<>>
  /\ used0' = EmptyDict
  /\ raised' = FALSE
  /\ started' = started + 1
  /\ pc' = "call"
  /\ UNCHANGED <<others, config, prop, i, successes, discards, ret, outcome, error_args,
                 lastcall, true_returns, false_returns>>

\* the loop condition fails: inner returns
Return ==
  /\ pc = "loop"
  /\ ~(successes < tries)
  /\ pc' = "done"
  /\ outcome' = "returned"
  /\ UNCHANGED <<others, config, prop, i, successes, discards, size, kwargs_new, used, ret,
                 reemit_error, exctype, cands, error_args, lastcall, gen_size, used0,
                 raised, true_returns, false_returns, started>>

(***************************************************************************)
(* _quickcheck_minimize                                                    *)
(***************************************************************************)
\* arg_shrinks that pairs a candidate with another argument name
arg_shrinks_misnamed(arg, u) ==
  LET other == IF \E n \in DOMAIN u : n # arg
                 THEN CHOOSE n \in DOMAIN u : n # arg
                 ELSE arg
  IN  [k \in 1 .. Len(shrink(u[arg])) |-> <<other, shrink(u[arg])[k]>>]

\* arg_shrinks(arg) over the map u
arg_shrinks(arg, u) ==
  [k \in 1 .. Len(shrink(u[arg])) |-> <<arg, shrink(u[arg])[k]>>]

\* roundrobin over arg_shrinks(name) for name in used: the candidates of one
\* pass of the while loop; a dict iterates its names in insertion order
CandidateStream(u) ==
  LET names == GeneratedNames(annotations)
  IN  roundrobin([k \in 1 .. Len(names) |-> arg_shrinks(names[k], u)])

\* ret = f(..., kwargs_new) returns
TrialReturns ==
  /\ pc = "call"
  /\ \E o \in Returns :
       /\ Invoked(kwargs_new, o)
       /\ ret' = o
       /\ true_returns' = IF o = "True" THEN true_returns + 1 ELSE true_returns
       /\ false_returns' = IF o = "False" THEN false_returns + 1 ELSE false_returns
  /\ pc' = "check"
  /\ UNCHANGED <<others, config, i, successes, discards, size, kwargs_new, used, reemit_error,
                 exctype, cands, outcome, error_args, gen_size, used0, raised, started>>

\* f(..., kwargs_new) raises e: _quickcheck_minimize is entered with type(e)
TrialRaises ==
  /\ pc = "call"
  /\ \E e \in Exceptions :
       /\ Invoked(kwargs_new, e)
       /\ exctype' = e
  /\ cands' = CandidateStream(used)
  /\ used0' = used
  /\ raised' = TRUE
  /\ pc' = "minimize"
  /\ UNCHANGED <<others, config, i, successes, discards, size, kwargs_new, used, ret,
                 reemit_error, outcome, error_args, gen_size, true_returns, false_returns, started>>

\* the keyword arguments the next candidate is tried with
CandidateKwargs ==
  SetItem(Update(kwargs, used), cands[1][1], cands[1][2])

\* f returns on the candidate: the for loop goes on to the next one
MinimizePass ==
  /\ pc = "minimize"
  /\ cands # <<>>
  /\ \E o \in Returns : Invoked(CandidateKwargs, o)
  /\ cands' = Tail(cands)
  /\ UNCHANGED <<others, config, i, successes, discards, size, kwargs_new, used, ret,
                 reemit_error, exctype, pc, outcome, error_args, gen_size, used0,
                 raised, true_returns, false_returns, started>>

\* a commit on any exception (`except Exception`)
MinimizeCommit_any ==
  /\ pc = "minimize"
  /\ cands # <<>>
  /\ \E e \in Exceptions : Invoked(CandidateKwargs, e)
  /\ used' = SetItem(used, cands[1][1], cands[1][2])
  /\ cands' = CandidateStream(used')
  /\ UNCHANGED <<others, config, i, successes, discards, size, kwargs_new, ret, reemit_error,
                 exctype, pc, outcome, error_args, gen_size, used0, raised,
                 true_returns, false_returns, started>>

\* f raises an exctype on the candidate: used[name] = v, break, and the
\* while loop builds the stream again
MinimizeCommit ==
  /\ pc = "minimize"
  /\ cands # <<>>
  /\ \E e \in Exceptions :
       /\ IsInstance(e, exctype)
       /\ Invoked(CandidateKwargs, e)
  /\ used' = SetItem(used, cands[1][1], cands[1][2])
  /\ cands' = CandidateStream(used')
  /\ UNCHANGED <<others, config, i, successes, discards, size, kwargs_new, ret, reemit_error,
                 exctype, pc, outcome, error_args, gen_size, used0, raised,
                 true_returns, false_returns, started>>

\* f raises something `except exctype` does not catch: the exception leaves
\* _quickcheck_minimize and inner
MinimizeEscape ==
  /\ pc = "minimize"
  /\ cands # <<>>
  /\ \E e \in Exceptions :
       /\ ~IsInstance(e, exctype)
       /\ Invoked(CandidateKwargs, e)
       /\ outcome' = e
  /\ pc' = "done"
  /\ UNCHANGED <<others, config, i, successes, discards, size, kwargs_new, used, ret,
                 reemit_error, exctype, cands, error_args, gen_size, used0, raised,
                 true_returns, false_returns, started>>

\* the stream is exhausted (for ... else: break): return used
MinimizeReturn ==
  /\ pc = "minimize"
  /\ cands = <<>>
  /\ reemit_error' = TRUE
  /\ pc' = "reemit"
  /\ UNCHANGED <<others, config, prop, i, successes, discards, size, kwargs_new, used, ret,
                 exctype, cands, outcome, error_args, lastcall, gen_size, used0,
                 raised, true_returns, false_returns, started>>

(***************************************************************************)
(* quickcheck.inner, after the call of the trial                           *)
(***************************************************************************)
\* kwargs_new.update(used); f raises again: raise QuickCheckError(used)
ReemitRaises ==
  /\ pc = "reemit"
  /\ reemit_error
  /\ kwargs_new' = Update(kwargs_new, used)
  /\ \E e \in Exceptions : Invoked(kwargs_new', e)
  /\ outcome' = "QuickCheckError"
  /\ error_args' = used
  /\ pc' = "done"
  /\ UNCHANGED <<others, config, i, successes, discards, size, used, ret, reemit_error,
                 exctype, cands, gen_size, used0, raised, true_returns, false_returns, started>>

\* kwargs_new.update(used); f returns this time: inner goes on to `if ret is None`
ReemitReturns ==
  /\ pc = "reemit"
  /\ reemit_error
  /\ kwargs_new' = Update(kwargs_new, used)
  /\ \E o \in Returns : Invoked(kwargs_new', o)
  /\ pc' = "check"
  /\ UNCHANGED <<others, config, i, successes, discards, size, used, ret, reemit_error,
                 exctype, cands, outcome, error_args, gen_size, used0, raised,
                 true_returns, false_returns, started>>

\* `if ret is None` reads a local that was never assigned
RetUnbound ==
  /\ pc = "check"
  /\ ret = "unbound"
  /\ outcome' = "UnboundLocalError"
  /\ pc' = "done"
  /\ UNCHANGED <<others, config, prop, i, successes, discards, size, kwargs_new, used, ret,
                 reemit_error, exctype, cands, error_args, lastcall, gen_size, used0,
                 raised, true_returns, false_returns, started>>

\* a runner without the None test: None is falsy and the trial is a discard
RetNone_discards ==
  /\ pc = "check"
  /\ ret = "None"
  /\ i' = i + 1
  /\ discards' = discards + 1
  /\ pc' = "loop"
  /\ UNCHANGED <<others, config, prop, successes, size, kwargs_new, used, ret, reemit_error,
                 exctype, cands, outcome, error_args, lastcall, gen_size, used0,
                 raised, true_returns, false_returns, started>>

\* raise RuntimeError("received None from quickcheckified function")
RetNone ==
  /\ pc = "check"
  /\ ret = "None"
  /\ outcome' = "RuntimeError: received None"
  /\ pc' = "done"
  /\ UNCHANGED <<others, config, prop, i, successes, discards, size, kwargs_new, used, ret,
                 reemit_error, exctype, cands, error_args, lastcall, gen_size, used0,
                 raised, true_returns, false_returns, started>>

\* the loop goes back to its head: the next iteration assigns kwargs_new and
\* used before it reads them, so what the finished trial left in them is dropped
NextIteration ==
  /\ pc' = "loop"
  /\ kwargs_new' = EmptyDict
  /\ used' = EmptyDict
  /\ gen_size' = EmptyDict
  /\ lastcall' = EmptyDict

\* i += 1; if ret: successes += 1
CountSuccess ==
  /\ pc = "check"
  /\ ret = "True"
  /\ i' = i + 1
  /\ successes' = successes + 1
  /\ NextIteration
  /\ UNCHANGED <<others, config, prop, discards, size, ret, reemit_error, exctype, cands,
                 outcome, error_args, used0, raised, true_returns, false_returns,
                 started>>

\* a ratio test that lets two more discards through
TooManyDiscards_late(d, s) == d >= max_discard_ratio * (s + 1) + 2

\* the ratio test with > in place of >=
TooManyDiscards_strict(d, s) == d > max_discard_ratio * (s + 1)

\* discards / (successes + 1) >= max_discard_ratio, for the integers of the model
TooManyDiscards(d, s) == d >= max_discard_ratio * (s + 1)

\* i += 1; else: discards += 1, and the ratio is below max_discard_ratio
CountDiscard ==
  /\ pc = "check"
  /\ ret = "False"
  /\ i' = i + 1
  /\ discards' = discards + 1
  /\ ~TooManyDiscards(discards', successes)
  /\ NextIteration
  /\ UNCHANGED <<others, config, prop, successes, size, ret, reemit_error, exctype, cands,
                 outcome, error_args, used0, raised, true_returns, false_returns,
                 started>>

\* i += 1; else: discards += 1; raise RuntimeError("too many tests discarded, aborting")
AbortDiscards ==
  /\ pc = "check"
  /\ ret = "False"
  /\ i' = i + 1
  /\ discards' = discards + 1
  /\ TooManyDiscards(discards', successes)
  /\ outcome' = "RuntimeError: too many tests discarded"
  /\ pc' = "done"
  /\ UNCHANGED <<others, config, prop, successes, size, kwargs_new, used, ret, reemit_error,
                 exctype, cands, error_args, lastcall, gen_size, used0, raised,
                 true_returns, false_returns, started>>

Next ==
  \/ Generate
  \/ Return
  \/ TrialReturns
  \/ TrialRaises
  \/ MinimizePass
  \/ MinimizeCommit
  \/ MinimizeEscape
  \/ MinimizeReturn
  \/ ReemitRaises
  \/ ReemitReturns
  \/ RetUnbound
  \/ RetNone
  \/ CountSuccess
  \/ CountDiscard
  \/ AbortDiscards

Spec == Init /\ [][Next]_vars

(***************************************************************************)
(* The round-trip scenario: a property over x: Integer(min=10, max=20)     *)
(* run with tries=50 and the defaults max_size=100, max_discard_ratio=10.  *)
(* The property returns x < 15, or asserts it.                             *)
(***************************************************************************)
InitRoundTrip ==
  /\ tries = 50
  /\ max_size = 100
  /\ max_discard_ratio = 10
  /\ annotations = << [name |-> "x", spec |-> Integer(Some(10), Some(20))] >>
  /\ kwargs = EmptyDict
  /\ f \in {"return x < 15", "assert x < 15"}
  /\ deterministic = FALSE
  /\ InitRun
  /\ OthersIdle

\* the steps of inner and _quickcheck_minimize these two properties can take
NextRoundTrip ==
  \/ Generate
  \/ Return
  \/ TrialReturns
  \/ TrialRaises
  \/ MinimizePass
  \/ MinimizeCommit
  \/ MinimizeReturn
  \/ ReemitRaises
  \/ CountSuccess
  \/ CountDiscard
  \/ AbortDiscards

SpecRoundTrip == InitRoundTrip /\ [][NextRoundTrip]_vars

(***************************************************************************)
(* SingleDispatchGeneric: the dispatch registry behind arbitrary and       *)
(* shrink.  A subject or a key is a class or an instance of a class; bool  *)
(* is a subclass of int, str is unrelated to both.  An implementation is   *)
(* identified by the number of its registration.                           *)
(***************************************************************************)
Classes == {"int", "bool", "str"}
Keys == {"int", "bool"}
Subjects == [kind : {"class", "instance"}, cls : Classes]

Subclass(c, k) == c = k \/ (c = "bool" /\ k = "int")

\* issubclass(obj, typ) for a key typ that is a class: TypeError when obj is
\* not a class
issubclass(obj, typ) ==
  IF obj.kind # "class" THEN "TypeError"
  ELSE IF Subclass(obj.cls, typ) THEN "True" ELSE "False"

\* isinstance(obj, typ) for a key typ that is a class; a class is an instance
\* of type, not of int, bool or str
isinstance(obj, typ) ==
  IF obj.kind = "instance" /\ Subclass(obj.cls, typ) THEN "True" ELSE "False"

\* checker(obj, typ)
CallChecker(checker, obj, typ) ==
  IF checker = "issubclass" THEN issubclass(obj, typ) ELSE isinstance(obj, typ)

\* a registration that puts the entry behind the older ones
register_append(impls, fn, typ, checker) ==
  impls \o << [typ |-> typ, impl |-> fn,
               checker |-> IF IsNone(checker) THEN generic.checker ELSE Val(checker)] >>

\* register(fn, self, typ, checker=None): self.implementations.insert(0, ...)
register(impls, fn, typ, checker) ==
  << [typ |-> typ, impl |-> fn,
      checker |-> IF IsNone(checker) THEN generic.checker ELSE Val(checker)] >> \o impls

\* a scan that takes a raising checker for a match
Accepts_unless_false(e, obj) == CallChecker(e.checker, obj, e.typ) # "False"

\* the body of the for loop of __call__: the entry is skipped (continue) when
\* the checker returns false or raises, and dispatched to otherwise
Accepts(e, obj) == CallChecker(e.checker, obj, e.typ) = "True"

\* the for loop of __call__ over what is left of self.implementations: the
\* implementation dispatched to, None when the loop ends
RECURSIVE Select(_, _)
Select(impls, obj) ==
  IF impls = <<>> THEN None
  ELSE IF Accepts(Head(impls), obj) THEN Some(Head(impls).impl)
  ELSE Select(Tail(impls), obj)

\* the dispatcher of arbitrary up to the call of the implementation
arbitrary_dispatcher(impl, typ) ==
  IF IsNone(impl)
    THEN [raised |-> "NotImplementedError", message |-> <<"arbitrary", typ>>,
          invoked |-> None, returned |-> None]
    ELSE [raised |-> "none", message |-> <<>>, invoked |-> impl, returned |-> None]

\* a shrink whose default returns None
shrink_dispatcher_none(impl, v) ==
  [raised |-> "none", message |-> <<>>, invoked |-> impl, returned |-> None]

\* the dispatcher of shrink: impl(v), or the empty list
shrink_dispatcher(impl, v) ==
  IF IsNone(impl)
    THEN [raised |-> "none", message |-> <<>>, invoked |-> None, returned |-> Some(<<>>)]
    ELSE [raised |-> "none", message |-> <<>>, invoked |-> impl, returned |-> None]

\* self.dispatcher(impl, obj)
CallDispatcher(impl, obj) ==
  IF generic.dispatcher = "arbitrary"
    THEN arbitrary_dispatcher(impl, obj)
    ELSE shrink_dispatcher(impl, obj)

\* @generic(issubclass) def arbitrary, @generic(isinstance) def shrink
InitRegistry ==
  /\ generic \in { [dispatcher |-> "arbitrary", checker |-> "issubclass"],
                   [dispatcher |-> "shrink", checker |-> "isinstance"] }
  /\ implementations = <<>>
  /\ dispatched = None
  /\ RunnerIdle
  /\ SizesIdle
  /\ ShrinkerIdle
  /\ RobinIdle
  /\ GenerationIdle

\* @generic_function.register(typ) or .register(typ, checker=...) on a new
\* implementation
Register ==
  /\ Len(implementations) < MaxEntries
  /\ \E typ \in Keys, checker \in {None, Some("issubclass"), Some("isinstance")} :
       implementations' =
         register(implementations, Len(implementations) + 1, typ, checker)
  /\ dispatched' = None
  /\ UNCHANGED <<generic, besidesRegistry>>

\* __call__(obj)
Call ==
  /\ \E obj \in Subjects :
       dispatched' =
         Some([obj |-> obj, result |-> CallDispatcher(Select(implementations, obj), obj)])
  /\ UNCHANGED <<generic, implementations, besidesRegistry>>

NextRegistry ==
  \/ Register
  \/ Call

SpecRegistry == InitRegistry /\ [][NextRegistry]_vars

(***************************************************************************)
(* The ambient size: thread_locals, thread_local, sized and the size       *)
(* argument of arbitrary.  A size, like every Python value that may be     *)
(* None, is None or Some(n).                                               *)
(***************************************************************************)
\* a plain object in place of threading.local(): one namespace for all threads
Local_shared(t) == "t1"

\* threading.local(): the namespace the thread t sees
Local(t) == t

\* hasattr(thread_locals, name) in thread t
hasattr(t) == thread_locals[Local(t)].set

\* getattr(thread_locals, name, None) in thread t
getattr(t) == IF hasattr(t) THEN thread_locals[Local(t)].val ELSE None

\* setattr(thread_locals, name, v) in thread t
setattr(t, v) == [thread_locals EXCEPT ![Local(t)] = [set |-> TRUE, val |-> v]]

\* delattr(thread_locals, name) in thread t
delattr(t) == [thread_locals EXCEPT ![Local(t)] = [set |-> FALSE, val |-> None]]

\* a test for a true value in place of `is not None`
Given_truthy(val) == ~IsNone(val) /\ Val(val) # 0

\* val is not None
Given(val) == ~IsNone(val)

\* thread_local(name, val) up to its yield, in thread t: the new
\* thread_locals and the locals the block keeps, with the value it yields
thread_local_enter(t, val) ==
  [ thread_locals |-> IF Given(val) THEN setattr(t, val) ELSE thread_locals,
    frame |-> [ val |-> val,
                was_set |-> hasattr(t),
                old_val |-> getattr(t),
                yielded |-> IF IsNone(val) THEN getattr(t) ELSE val ] ]

\* a finally clause that always sets the old value back
thread_local_exit_setattr(t, frame) ==
  IF Given(frame.val) THEN setattr(t, frame.old_val) ELSE thread_locals

\* the finally clause of thread_local, in thread t: the new thread_locals
thread_local_exit(t, frame) ==
  IF Given(frame.val)
    THEN IF frame.was_set THEN setattr(t, frame.old_val) ELSE delattr(t)
    ELSE thread_locals

\* the size arguments of the model: None, or a size from 0 on
SizeArgs == {None} \cup { Some(n) : n \in 0 .. MaxSizeArg }

Top(stack) == stack[Len(stack)]
Pop(stack) == SubSeq(stack, 1, Len(stack) - 1)

\* a thread enters a block `with sized(val)`, or calls arbitrary(spec,
\* size=val), which runs its implementation inside `with sized(size) as
\* effective_size` and passes it the value yielded
Enter ==
  \E t \in Threads, val \in SizeArgs :
    /\ ~unwinding[t]
    /\ Len(frames[t]) < MaxDepth
    /\ LET e == thread_local_enter(t, val)
       IN  /\ thread_locals' = e.thread_locals
           /\ frames' = [frames EXCEPT ![t] =
                Append(@, [before |-> thread_locals[Local(t)]] @@ e.frame)]
    /\ ended' = [ended EXCEPT ![t] = None]
    /\ UNCHANGED <<unwinding, besidesSizes>>

\* the innermost block of a thread ends and its finally clause runs
Exit(t) ==
  /\ frames[t] # <<>>
  /\ thread_locals' = thread_local_exit(t, Top(frames[t]))
  /\ frames' = [frames EXCEPT ![t] = Pop(@)]
  /\ ended' = [ended EXCEPT ![t] = Some(Top(frames[t]))]

\* the block ends normally
ExitReturn ==
  \E t \in Threads :
    /\ ~unwinding[t]
    /\ Exit(t)
    /\ UNCHANGED <<unwinding, besidesSizes>>

\* an exception is raised in the block, or propagates into it from an inner
\* block, and leaves it
ExitRaise ==
  \E t \in Threads :
    /\ Exit(t)
    /\ unwinding' = [unwinding EXCEPT ![t] = TRUE]
    /\ UNCHANGED besidesSizes

\* the exception is caught by the code around the block, or ends the call
Catch ==
  \E t \in Threads :
    /\ unwinding[t]
    /\ unwinding' = [unwinding EXCEPT ![t] = FALSE]
    /\ UNCHANGED <<thread_locals, frames, ended, besidesSizes>>

NextSizes ==
  \/ Enter
  \/ ExitReturn
  \/ ExitRaise
  \/ Catch

\* no thread is inside a with block and no size is set
InitSizes ==
  /\ SizesIdle
  /\ RunnerIdle
  /\ RegistryIdle
  /\ ShrinkerIdle
  /\ RobinIdle
  /\ GenerationIdle

SpecSizes == InitSizes /\ [][NextSizes]_vars

(***************************************************************************)
(* Shrinking sequences, and the generators shrink returns.  shrink_int is  *)
(* defined twice in the repository: quickcheck/implementations.py halves   *)
(* with math.trunc(i / 2), quickcheck.py with i // 2.                      *)
(***************************************************************************)
\* v[:k] + v[k+1:] for the k-th element of v, counted from 1
WithoutIndex(v, k) == SubSeq(v, 1, k - 1) \o SubSeq(v, k + 1, Len(v))

\* makeshrinks(i) of shrink_sequence and shrinki(i) of shrink_tuple: v with
\* its k-th element replaced by each candidate of shrink(v[k]) in turn
makeshrinks(v, k) ==
  [j \in 1 .. Len(shrink(v[k])) |-> [v EXCEPT ![k] = shrink(v[k])[j]]]

\* a sequence shrink that only simplifies elements
shrink_sequence_simplify(v) ==
  roundrobin([k \in 1 .. Len(v) |-> makeshrinks(v, k)])

\* shrink_sequence(v): v without each element in turn, then the round robin
\* of the simplifications of each element
shrink_sequence(v) ==
  [k \in 1 .. Len(v) |-> WithoutIndex(v, k)]
    \o roundrobin([k \in 1 .. Len(v) |-> makeshrinks(v, k)])

shrink_list(v) == shrink_sequence(v)

\* a tuple shrink that is the generic sequence shrink
shrink_tuple_sequence(v) == shrink_sequence(v)

\* shrink_tuple(v): the round robin of shrinki(i) over the positions
shrink_tuple(v) == roundrobin([k \in 1 .. Len(v) |-> makeshrinks(v, k)])

\* the sequences of at most n elements of S
RECURSIVE SeqsUpTo(_, _)
SeqsUpTo(S, n) ==
  IF n = 0 THEN {<<>>}
  ELSE LET shorter == SeqsUpTo(S, n - 1)
       IN  shorter \cup { Append(q, e) : q \in shorter, e \in S }

Modules == {"quickcheck/implementations.py", "quickcheck.py"}

\* shrink(v) is called on an int, in either module, or on a list or a tuple
\* of ints
InitShrinker ==
  /\ \/ /\ request \in [module : Modules, type : {"int"}, v : -MaxInt .. MaxInt]
     \/ /\ request \in [module : {"quickcheck/implementations.py"},
                        type : {"list", "tuple"},
                        v : SeqsUpTo(-MaxElem .. MaxElem, MaxLen)]
  /\ shrink_pc = "start"
  /\ shrink_i = IF request.type = "int" THEN request.v ELSE 0
  /\ yielded = <<>>
  /\ RunnerIdle
  /\ RegistryIdle
  /\ SizesIdle
  /\ RobinIdle
  /\ GenerationIdle

\* i = math.trunc(i / 2), or i = i // 2
Halve(n) ==
  IF request.module = "quickcheck/implementations.py" THEN Trunc(n, 2) ELSE n \div 2

\* if v < 0: yield -v
IntYieldNegation ==
  /\ request.type = "int"
  /\ shrink_pc = "start"
  /\ request.v < 0
  /\ yielded' = Append(yielded, -request.v)
  /\ shrink_pc' = "negated"
  /\ UNCHANGED <<request, shrink_i, besidesShrinker>>

\* if v != 0: yield 0
IntYieldZero ==
  /\ request.type = "int"
  /\ \/ shrink_pc = "start" /\ request.v > 0
     \/ shrink_pc = "negated"
  /\ yielded' = Append(yielded, 0)
  /\ shrink_pc' = "loop"
  /\ UNCHANGED <<request, shrink_i, besidesShrinker>>

\* the generator is at the head of the while loop, i = v assigned
AtLoop ==
  /\ request.type = "int"
  /\ \/ shrink_pc = "loop"
     \/ shrink_pc = "start" /\ request.v = 0

\* i is halved and abs(v - i) < abs(v): yield v - i
IntYieldHalf ==
  /\ AtLoop
  /\ Len(yielded) < MaxYields
  /\ shrink_i' = Halve(shrink_i)
  /\ Abs(request.v - shrink_i') < Abs(request.v)
  /\ yielded' = Append(yielded, request.v - shrink_i')
  /\ shrink_pc' = "loop"
  /\ UNCHANGED <<request, besidesShrinker>>

\* i is halved and abs(v - i) < abs(v) fails: break, the generator ends
IntStop ==
  /\ AtLoop
  /\ shrink_i' = Halve(shrink_i)
  /\ ~(Abs(request.v - shrink_i') < Abs(request.v))
  /\ shrink_pc' = "done"
  /\ UNCHANGED <<request, yielded, besidesShrinker>>

\* the candidates of the request for a list or a tuple
Candidates ==
  IF request.type = "list" THEN shrink_list(request.v) ELSE shrink_tuple(request.v)

\* the generator of shrink_list or shrink_tuple yields its next candidate
SeqYield ==
  /\ request.type \in {"list", "tuple"}
  /\ shrink_pc # "done"
  /\ Len(yielded) < Len(Candidates)
  /\ yielded' = Append(yielded, Candidates[Len(yielded) + 1])
  /\ shrink_pc' = "loop"
  /\ UNCHANGED <<request, shrink_i, besidesShrinker>>

\* the generator of shrink_list or shrink_tuple ends
SeqStop ==
  /\ request.type \in {"list", "tuple"}
  /\ shrink_pc # "done"
  /\ Len(yielded) = Len(Candidates)
  /\ shrink_pc' = "done"
  /\ UNCHANGED <<request, shrink_i, yielded, besidesShrinker>>

NextShrinker ==
  \/ IntYieldNegation
  \/ IntYieldZero
  \/ IntYieldHalf
  \/ IntStop
  \/ SeqYield
  \/ SeqStop

SpecShrinker == InitShrinker /\ [][NextShrinker]_vars

(***************************************************************************)
(* The generator roundrobin of some iterables, step by step.  An element of *)
(* an iterable is named by the iterable it comes from and its position     *)
(* there, so that every element of the arguments is a different value.     *)
(***************************************************************************)
\* the s-th argument: n elements
Stream(s, n) == [j \in 1 .. n |-> [stream |-> s, pos |-> j]]

\* pending = len(iterables); nexts = cycle(iter(it).__next__ for it in iterables)
InitRobin ==
  /\ \E k \in 0 .. MaxStreams :
       \E lens \in [1 .. k -> 0 .. MaxStreamLen] :
         /\ iterables = [s \in 1 .. k |-> Stream(s, lens[s])]
         /\ taken = [s \in 1 .. k |-> 0]
         /\ pending = k
         /\ nexts = [s \in 1 .. k |-> s]
  /\ emitted = <<>>
  /\ robin_pc = "run"
  /\ RunnerIdle
  /\ RegistryIdle
  /\ SizesIdle
  /\ ShrinkerIdle
  /\ GenerationIdle

\* a cycle that calls the same iterator again
Advance_same(cycle) == cycle

\* `for next in nexts`: the cycle moves on to the iterator after the one
\* it has just called, which it will call again after all the others
Advance(cycle) == Tail(cycle) \o <<Head(cycle)>>

\* nexts = cycle(islice(nexts, pending)): the next pending iterators of the
\* old cycle, which are all but the one that raised StopIteration
Remaining(cycle, n) == SubSeq(Tail(cycle), 1, n)

\* next() returns an element: yield next()
RobinYield ==
  /\ robin_pc = "run"
  /\ pending > 0
  /\ LET s == Head(nexts)
     IN  /\ taken[s] < Len(iterables[s])
         /\ emitted' = Append(emitted, iterables[s][taken[s] + 1])
         /\ taken' = [taken EXCEPT ![s] = @ + 1]
  /\ nexts' = Advance(nexts)
  /\ UNCHANGED <<iterables, pending, robin_pc, besidesRobin>>

\* next() raises StopIteration: except StopIteration
RobinExhausted ==
  /\ robin_pc = "run"
  /\ pending > 0
  /\ taken[Head(nexts)] = Len(iterables[Head(nexts)])
  /\ pending' = pending - 1
  /\ nexts' = Remaining(nexts, pending - 1)
  /\ UNCHANGED <<iterables, taken, emitted, robin_pc, besidesRobin>>

\* `while pending` ends and the generator returns
RobinReturn ==
  /\ robin_pc = "run"
  /\ pending = 0
  /\ robin_pc' = "done"
  /\ UNCHANGED <<iterables, taken, pending, nexts, emitted, besidesRobin>>

NextRobin ==
  \/ RobinYield
  \/ RobinExhausted
  \/ RobinReturn

SpecRobin == InitRobin /\ [][NextRobin]_vars

(***************************************************************************)
(* Descriptors: the constructors of Float, Integer, List and Constant, and *)
(* a call of arbitrary on the object constructed.  A bound of a            *)
(* descriptor is any number; the model takes the multiples of 1 / Unit, a  *)
(* bound b standing for the number b / Unit.  The local f of               *)
(* Float.arbitrary counts 1 / (Unit * DistSteps).                          *)
(***************************************************************************)
\* the numbers a bound can be, and None
Numbers == {None} \cup { Some(b) : b \in -MaxBound .. MaxBound }

\* the size arguments of a call of arbitrary, and the ambient sizes
GenSizes == {None} \cup { Some(n) : n \in 0 .. MaxGenSize }

\* the constructor calls of the model; the elements of a List are Constant
Constructors ==
  [cls : {"Float", "Integer"}, min : Numbers, max : Numbers,
   add_sign : BOOLEAN, distribution : {"random", "other"}]
  \cup [cls : {"List"}, lengthmin : Numbers, lengthmax : Numbers]
  \cup [cls : {"Constant"}, v : {"0", "nan", "[]"}]

\* Float.__init__, which Integer inherits: None when it raises ValueError,
\* the object otherwise
Float_init(c) ==
  IF ~IsNone(c.min) /\ ~IsNone(c.max) /\ Val(c.min) > Val(c.max)
    THEN None
    ELSE Some(c)

\* a List.__init__ that tests the two bounds against each other only
List_init_unsigned(c) ==
  LET lengthmin == IF IsNone(c.lengthmin) THEN 0 ELSE Val(c.lengthmin)
  IN  IF ~IsNone(c.lengthmax) /\ lengthmin > Val(c.lengthmax)
        THEN None
        ELSE Some([cls |-> "List", lengthmin |-> lengthmin, lengthmax |-> c.lengthmax,
                   elspec |-> [cls |-> "Constant", v |-> "0"]])

\* List.__init__: None when it raises ValueError, the object otherwise
List_init(c) ==
  LET lengthmin == IF IsNone(c.lengthmin) THEN 0 ELSE Val(c.lengthmin)
  IN  IF ~IsNone(c.lengthmax) /\ lengthmin > Val(c.lengthmax) THEN None
      ELSE IF ~(lengthmin >= 0) THEN None
      ELSE IF ~IsNone(c.lengthmax) /\ ~(Val(c.lengthmax) >= 0) THEN None
      ELSE Some([cls |-> "List", lengthmin |-> lengthmin, lengthmax |-> c.lengthmax,
                 elspec |-> [cls |-> "Constant", v |-> "0"]])

\* Constant.__init__
Constant_init(c) == Some(c)

\* the constructor of the class of c
Construct(c) ==
  CASE c.cls \in {"Float", "Integer"} -> Float_init(c)
    [] c.cls = "List" -> List_init(c)
    [] c.cls = "Constant" -> Constant_init(c)

\* a constructor is called
InitGeneration ==
  /\ ctor \in Constructors
  /\ descriptor = None
  /\ arb_call = None
  /\ arb_locals = None
  /\ arb_f = None
  /\ arb_pc = "new"
  /\ arb_result = None
  /\ RunnerIdle
  /\ RegistryIdle
  /\ SizesIdle
  /\ ShrinkerIdle
  /\ RobinIdle

\* the constructor returns the object
Constructed ==
  /\ arb_pc = "new"
  /\ ~IsNone(Construct(ctor))
  /\ descriptor' = Construct(ctor)
  /\ arb_pc' = "object"
  /\ UNCHANGED <<ctor, arb_call, arb_locals, arb_f, arb_result, besidesGeneration>>

\* the constructor raises ValueError
ConstructorRaises ==
  /\ arb_pc = "new"
  /\ IsNone(Construct(ctor))
  /\ arb_pc' = "ValueError"
  /\ UNCHANGED <<ctor, descriptor, arb_call, arb_locals, arb_f, arb_result,
                 besidesGeneration>>

\* `with sized(size) as effective_size`: the size given, or the ambient one
EffectiveSize(call) == IF IsNone(call.size) THEN call.ambient ELSE call.size

\* arbitrary(descriptor) or arbitrary(descriptor, size=n) is called, inside
\* or outside a block `with sized(m)`; it dispatches to arbitrary_spec
CallArbitrary ==
  /\ arb_pc = "object"
  /\ \E sz \in GenSizes, ambient \in GenSizes :
       arb_call' = Some([size |-> sz, ambient |-> ambient])
  /\ arb_pc' = "arbitrary_spec"
  /\ UNCHANGED <<ctor, descriptor, arb_locals, arb_f, arb_result, besidesGeneration>>

\* the Float or Integer whose arbitrary draws: the descriptor itself, or
\* Integer(min=self.lengthmin, max=self.lengthmax) for a List
Drawn(obj) ==
  IF obj.cls = "List"
    THEN [cls |-> "Integer", min |-> Some(obj.lengthmin), max |-> obj.lengthmax,
          add_sign |-> TRUE, distribution |-> "random"]
    ELSE obj

\* the parameter size of the method arbitrary of obj: the effective size,
\* or the default of the parameter when arbitrary_spec passes none
SizeParameter(obj, effective) ==
  IF ~IsNone(effective) THEN Val(effective)
  ELSE IF obj.cls = "List" THEN DefaultListSize
  ELSE DefaultFloatSize

\* Float.arbitrary up to its loop: the locals mult, add and add_sign, in
\* multiples of 1 / Unit; sign is the result of random.choice([-1, 1])
Scale(spec, sz, sign) ==
  LET add_sign == IsNone(spec.min) /\ IsNone(spec.max) /\ spec.add_sign
      add == IF ~IsNone(spec.min) THEN Val(spec.min)
             ELSE IF ~IsNone(spec.max) THEN Val(spec.max)
             ELSE 0
      mult0 == IF ~IsNone(spec.min)
                 THEN (IF ~IsNone(spec.max) THEN Val(spec.max) - Val(spec.min)
                       ELSE sz * Unit)
               ELSE IF ~IsNone(spec.max) THEN -(sz * Unit)
               ELSE sz * Unit
      mult1 == IF add_sign THEN mult0 * sign ELSE mult0
      mult == IF mult1 > sz * Unit THEN sz * Unit
              ELSE IF mult1 < -(sz * Unit) THEN -(sz * Unit)
              ELSE mult1
  IN  [size |-> sz, mult |-> mult, add |-> add, add_sign |-> add_sign]

\* arbitrary_spec calls the method arbitrary of a Float, an Integer or a
\* List, which accepts a size
EnterFloat ==
  /\ arb_pc = "arbitrary_spec"
  /\ Val(descriptor).cls # "Constant"
  /\ \E sign \in {-1, 1} :
       arb_locals' = Some(Scale(Drawn(Val(descriptor)),
                                SizeParameter(Val(descriptor), EffectiveSize(Val(arb_call))),
                                sign))
  /\ arb_pc' = "loop"
  /\ UNCHANGED <<ctor, descriptor, arb_call, arb_f, arb_result, besidesGeneration>>

\* an arbitrary_spec that lets the TypeError of spec.arbitrary(size=size) out
arbitrary_spec_raises(obj) == [pc |-> "raised", result |-> None]

\* arbitrary_spec after spec.arbitrary(size=size) has raised TypeError:
\* except TypeError: return spec.arbitrary()
arbitrary_spec_except(obj) == [pc |-> "returned", result |-> Some(obj.v)]

\* arbitrary_spec on a Constant: spec.arbitrary() when the size is None,
\* spec.arbitrary(size=size) otherwise, which raises TypeError because
\* Constant.arbitrary has no parameter size
EnterConstant ==
  /\ arb_pc = "arbitrary_spec"
  /\ Val(descriptor).cls = "Constant"
  /\ IF IsNone(EffectiveSize(Val(arb_call)))
       THEN /\ arb_pc' = "returned"
            /\ arb_result' = Some(Val(descriptor).v)
       ELSE /\ arb_pc' = "TypeError"
            /\ UNCHANGED arb_result
  /\ UNCHANGED <<ctor, descriptor, arb_call, arb_locals, arb_f, besidesGeneration>>

\* the TypeError reaches the except clause of arbitrary_spec
ExceptTypeError ==
  /\ arb_pc = "TypeError"
  /\ arb_pc' = arbitrary_spec_except(Val(descriptor)).pc
  /\ arb_result' = arbitrary_spec_except(Val(descriptor)).result
  /\ UNCHANGED <<ctor, descriptor, arb_call, arb_locals, arb_f, besidesGeneration>>

\* what distribution() can return, in multiples of 1 / DistSteps:
\* random.random() is in [0, 1), another distribution need not be
Draws(distribution) ==
  IF distribution = "random" THEN 0 .. DistSteps - 1
  ELSE {-(DistSteps \div 2), DistSteps \div 4, DistSteps + DistSteps \div 4}

\* f = dist * mult + add, with dist = abs(dist) if add_sign
DrawF(locals, d) ==
  (IF locals.add_sign THEN Abs(d) ELSE d) * locals.mult + locals.add * DistSteps

\* the two tests of the loop: f is drawn again
Rejected(spec, fv) ==
  \/ ~IsNone(spec.max) /\ fv > Val(spec.max) * DistSteps
  \/ ~IsNone(spec.min) /\ fv < Val(spec.min) * DistSteps

\* what arbitrary returns when Float.arbitrary returns f: f itself,
\* int(round(f)), or a list of that many elements
Returned(obj, fv) ==
  CASE obj.cls = "Float" -> fv
    [] obj.cls = "Integer" -> Round(fv, Unit * DistSteps)
    [] obj.cls = "List" -> [j \in 1 .. Round(fv, Unit * DistSteps) |-> obj.elspec.v]

\* a draw of the loop fails a test: continue
DrawRejected ==
  /\ arb_pc = "loop"
  /\ \E d \in Draws(Drawn(Val(descriptor)).distribution) :
       LET fv == DrawF(Val(arb_locals), d)
       IN  /\ Rejected(Drawn(Val(descriptor)), fv)
           /\ arb_f' = Some(fv)
  /\ UNCHANGED <<ctor, descriptor, arb_call, arb_locals, arb_pc, arb_result,
                 besidesGeneration>>

\* a draw of the loop passes the tests: return f
DrawReturned ==
  /\ arb_pc = "loop"
  /\ \E d \in Draws(Drawn(Val(descriptor)).distribution) :
       LET fv == DrawF(Val(arb_locals), d)
       IN  /\ ~Rejected(Drawn(Val(descriptor)), fv)
           /\ arb_f' = Some(fv)
           /\ arb_result' = Some(Returned(Val(descriptor), fv))
  /\ arb_pc' = "returned"
  /\ UNCHANGED <<ctor, descriptor, arb_call, arb_locals, besidesGeneration>>

NextGeneration ==
  \/ Constructed
  \/ ConstructorRaises
  \/ CallArbitrary
  \/ EnterFloat
  \/ EnterConstant
  \/ ExceptTypeError
  \/ DrawRejected
  \/ DrawReturned

SpecGeneration == InitGeneration /\ [][NextGeneration]_vars

(***************************************************************************)
(* The shrink implementations quickcheck/implementations.py registers when *)
(* it is imported, and calls of shrink on values afterwards.  A value is   *)
(* its class and what it holds: an int or a bool its number (True is 1), a *)
(* float its multiple of 1 / Unit, a list or a tuple its ints.             *)
(***************************************************************************)
\* a module that registers shrink_bool before shrink_int
BuiltinShrinks_bool_first ==
  << [typ |-> "float", fn |-> "shrink_float"],
     [typ |-> "bool", fn |-> "shrink_bool"],
     [typ |-> "int", fn |-> "shrink_int"],
     [typ |-> "list", fn |-> "shrink_list"],
     [typ |-> "tuple", fn |-> "shrink_tuple"],
     [typ |-> "str", fn |-> "shrink_str"],
     [typ |-> "bytes", fn |-> "shrink_bytes"] >>

\* the @shrink.register(...) lines of the module, in the order of the file
BuiltinShrinks ==
  << [typ |-> "float", fn |-> "shrink_float"],
     [typ |-> "int", fn |-> "shrink_int"],
     [typ |-> "bool", fn |-> "shrink_bool"],
     [typ |-> "list", fn |-> "shrink_list"],
     [typ |-> "tuple", fn |-> "shrink_tuple"],
     [typ |-> "str", fn |-> "shrink_str"],
     [typ |-> "bytes", fn |-> "shrink_bytes"] >>

\* the values shrink is called on; nothing is registered for a dict
BuiltinValues ==
  [cls : {"int", "float"}, val : -MaxInt .. MaxInt]
  \cup [cls : {"bool"}, val : {0, 1}]
  \cup [cls : {"list", "tuple"}, val : SeqsUpTo(-MaxElem .. MaxElem, MaxLen)]
  \cup [cls : {"dict"}, val : {0}]

\* shrink_float: -v if v < 0, then float(int(v)) if it is nearer to zero
shrink_float(h) ==
  LET x == Trunc(h, Unit) * Unit
  IN  (IF h < 0 THEN <<-h>> ELSE <<>>) \o (IF Abs(x) < Abs(h) THEN <<x>> ELSE <<>>)

\* shrink_bool: if v: yield False
shrink_bool(b) == IF b # 0 THEN <<0>> ELSE <<>>

\* the candidates of cls, each holding an element of vals
Holding(cls, vals) == [k \in 1 .. Len(vals) |-> [cls |-> cls, val |-> vals[k]]]

\* impl(v): the candidates the implementation fn yields for the value v
Apply(fn, v) ==
  CASE fn = "shrink_float" -> Holding("float", shrink_float(v.val))
    [] fn = "shrink_int" -> Holding("int", shrink_int(v.val))
    [] fn = "shrink_bool" -> Holding("bool", shrink_bool(v.val))
    [] fn = "shrink_list" -> Holding("list", shrink_list(v.val))
    [] fn = "shrink_tuple" -> Holding("tuple", shrink_tuple(v.val))

\* the module is about to be imported: @generic(isinstance) def shrink
InitBuiltins ==
  /\ generic = [dispatcher |-> "shrink", checker |-> "isinstance"]
  /\ implementations = <<>>
  /\ dispatched = None
  /\ ShrinkerIdle
  /\ RunnerIdle
  /\ SizesIdle
  /\ RobinIdle
  /\ GenerationIdle

\* the import reaches the next @shrink.register(typ)
ImportRegister ==
  /\ Len(implementations) < Len(BuiltinShrinks)
  /\ LET b == BuiltinShrinks[Len(implementations) + 1]
     IN  implementations' = register(implementations, b.fn, b.typ, None)
  /\ UNCHANGED <<generic, dispatched, shrinker, runner, sizes, robin, generation>>

\* what shrink(v) returns: the candidates of the implementation dispatched
\* to, or the empty list of the default
ShrinkResult(call) ==
  IF IsNone(call.result.invoked)
    THEN Val(call.result.returned)
    ELSE Apply(Val(call.result.invoked), call.obj)

\* shrink(v) is called after the import: __call__ scans the implementations
\* and the dispatcher calls the one selected
CallShrink ==
  /\ Len(implementations) = Len(BuiltinShrinks)
  /\ IsNone(dispatched)
  /\ \E v \in BuiltinValues :
       dispatched' =
         Some([obj |-> v,
               result |-> shrink_dispatcher(
                            Select(implementations, [kind |-> "instance", cls |-> v.cls]),
                            v)])
  /\ shrink_pc' = "start"
  /\ yielded' = <<>>
  /\ UNCHANGED <<generic, implementations, request, shrink_i, runner, sizes, robin,
                 generation>>

\* the caller takes the next candidate
TakeCandidate ==
  /\ ~IsNone(dispatched)
  /\ shrink_pc # "done"
  /\ Len(yielded) < Len(ShrinkResult(Val(dispatched)))
  /\ yielded' = Append(yielded, ShrinkResult(Val(dispatched))[Len(yielded) + 1])
  /\ shrink_pc' = "loop"
  /\ UNCHANGED <<registry, request, shrink_i, runner, sizes, robin, generation>>

\* there is no candidate left
CandidatesEnd ==
  /\ ~IsNone(dispatched)
  /\ shrink_pc # "done"
  /\ Len(yielded) = Len(ShrinkResult(Val(dispatched)))
  /\ shrink_pc' = "done"
  /\ UNCHANGED <<registry, request, shrink_i, yielded, runner, sizes, robin, generation>>

NextBuiltins ==
  \/ ImportRegister
  \/ CallShrink
  \/ TakeCandidate
  \/ CandidatesEnd

SpecBuiltins == InitBuiltins /\ [][NextBuiltins]_vars

(***************************************************************************)
(* Properties of the runner and the minimizer.                             *)
(***************************************************************************)
\* the values a chain of shrink steps can reach from v
RECURSIVE ShrinkClosure(_)
ShrinkClosure(v) ==
  {v} \cup UNION { ShrinkClosure(shrink(v)[k]) : k \in 1 .. Len(shrink(v)) }

\* C1: once the property call of a trial has raised, the run ends on that
\* trial with a QuickCheckError carrying the minimized Used-Arguments Map;
\* the trial is not counted and no further trial is started.
C1_RaiseEndsInQuickCheckError ==
  raised =>
    /\ pc \in {"minimize", "reemit", "done"}
    /\ pc = "done" => (outcome = "QuickCheckError" /\ error_args = used)

\* C2: minimization never raises: no exception of the property leaves
\* _quickcheck_minimize, whatever the property does on the candidates.
C2_MinimizeNeverRaises ==
  raised => outcome \notin Exceptions

\* C3: for a property that raises deterministically, the current map of a
\* minimization always makes the property raise an instance of the preserved
\* class.
C3_CurrentMapFails ==
  (deterministic /\ pc \in {"minimize", "reemit"}) =>
    /\ Update(kwargs, used) \in DOMAIN prop
    /\ IsInstance(prop[Update(kwargs, used)], exctype)

\* C3: a step of the minimization changes the map only by substituting the
\* candidate just tried, on which the property raised an instance of the
\* preserved class (never on a normal return), and the candidate stream is
\* then rebuilt from the new map.
C3_CommitStep ==
  (pc = "minimize" /\ used' # used) =>
    /\ cands # <<>>
    /\ used' = SetItem(used, cands[1][1], cands[1][2])
    /\ lastcall' = CandidateKwargs
    /\ deterministic => IsInstance(prop'[CandidateKwargs], exctype)
    /\ cands' = CandidateStream(used')
    /\ pc' = "minimize"

\* C3: throughout minimization the current Used-Arguments Map is a failing
\* one, and a candidate is committed only if the property raises a failure of
\* the same kind on that single substitution.
C3_CommitOnlyFailing == [](C3_CurrentMapFails) /\ [][C3_CommitStep]_vars

\* a commit has happened in the minimization of a deterministic property
C3_Witness ==
  deterministic /\ pc = "minimize" /\ used # used0 /\ cands # <<>>

\* C4: when minimization returns for a deterministic property, no single
\* substitution of a shrink candidate makes the property raise an instance of
\* the preserved class.
C4_LocalMinimum ==
  (deterministic /\ pc = "reemit") =>
    \A name \in DOMAIN used :
      \A k \in 1 .. Len(shrink(used[name])) :
        LET kw == SetItem(Update(kwargs, used), name, shrink(used[name])[k])
        IN  kw \in DOMAIN prop /\ ~IsInstance(prop[kw], exctype)

\* minimization returned a committed map that still has candidates for both
\* arguments
C4_Witness ==
  /\ deterministic
  /\ pc = "reemit"
  /\ used # used0
  /\ \A name \in {"x", "y"} : name \in DOMAIN used /\ shrink(used[name]) # <<>>

\* a map that is simpler than or equal to the original failing map
C5_SimplerOrEqual(m) ==
  /\ DOMAIN m = DOMAIN used0
  /\ \A name \in DOMAIN m : m[name] \in ShrinkClosure(used0[name])

\* C5: the map minimization returns, and the one the QuickCheckError carries,
\* has the argument names of the original failing map and every value is the
\* original one or reachable from it by a chain of shrink steps.
C5_ResultNeverLarger ==
  /\ pc = "reemit" => C5_SimplerOrEqual(used)
  /\ outcome = "QuickCheckError" => C5_SimplerOrEqual(error_args)

\* a result whose x is more than one shrink step away from the original
C5_Witness ==
  /\ outcome = "QuickCheckError"
  /\ error_args["x"] # used0["x"]
  /\ error_args["x"] \notin Range(shrink(used0["x"]))

C6_RoundTripSafe ==
  /\ ("x" \in DOMAIN used) => used0 = EmptyDict \/ used0["x"] \in 15 .. 20
  /\ (pc \in {"call", "check"} /\ ~raised) => used["x"] \in 10 .. 20
  /\ f = "return x < 15" =>
       /\ ~raised
       /\ outcome \in {"running", "returned", "RuntimeError: too many tests discarded"}
       /\ outcome = "returned" => (successes = 50 /\ true_returns = 50)
  /\ f = "assert x < 15" =>
       /\ discards = 0
       /\ outcome \in {"running", "returned", "QuickCheckError"}
       /\ outcome = "QuickCheckError" => error_args = [n \in {"x"} |-> 15]

\* the number of trials a run can count: tries successes, and fewer than
\* max_discard_ratio * (tries + 1) discards before the last one
MaxTrials == tries + max_discard_ratio * (tries + 1)

\* a variant of the round-trip runs: what is left of the trials, then of the
\* current trial, then of its minimization (the candidates left, under the
\* size of the current x)
C6_Variant ==
  IF pc = "done" THEN 0
  ELSE (MaxTrials - i) * 200
         + (CASE pc = "loop" -> 199
              [] pc = "call" -> 198
              [] pc = "minimize" -> 2 + 8 * Abs(used["x"]) + Len(cands)
              [] pc = "reemit" -> 1
              [] pc = "check" -> 1)

\* the condition under which a step of NextRoundTrip can be taken: the
\* guards of its actions, position by position
C6_CanStep ==
  \/ /\ pc = "loop"
     /\ successes < tries =>
          \A n \in Range(GeneratedNames(annotations)) :
            arbitrary(SpecOf(n), trial_size(i, max_size)) # {}
  \/ /\ pc = "call"
     /\ Answers(kwargs_new) # {}
  \/ /\ pc = "minimize"
     /\ \/ cands = <<>>
        \/ \E o \in Answers(CandidateKwargs) : o \in Returns \/ IsInstance(o, exctype)
  \/ /\ pc = "reemit"
     /\ reemit_error
     /\ \E e \in Exceptions : e \in Answers(Update(kwargs_new, used))
  \/ /\ pc = "check"
     /\ ret \in {"True", "False"}

\* the call terminates: the variant is a natural number, every step of the
\* run decreases it, and the run stops only where the call has ended
C6_Terminates ==
  /\ [](C6_Variant >= 0 /\ (pc # "done" => C6_CanStep))
  /\ [][C6_Variant' < C6_Variant]_vars

C7_DiscardRatio ==
  /\ discards >= max_discard_ratio * (successes + 1)
       => outcome = "RuntimeError: too many tests discarded"
  /\ successes = 0 => discards <= max_discard_ratio
  /\ (successes = 0 /\ tries >= 1) => outcome # "returned"

\* C7, amended: the same for max_discard_ratio > 0 (the ratio is tested
\* after a discard only, so with max_discard_ratio = 0 a run without
\* discards is not aborted and the first discard aborts it).
C7_DiscardRatioPositive ==
  max_discard_ratio > 0 => C7_DiscardRatio

\* a run of discards only, aborted at the max_discard_ratio-th discard
C7_Witness ==
  /\ outcome = "RuntimeError: too many tests discarded"
  /\ max_discard_ratio = 2
  /\ successes = 0
  /\ discards = 2
  /\ false_returns = 2

\* C8: every counted success is a trial whose call returned a true result,
\* every counted discard a trial whose call returned a false-equivalent
\* result, and the call returns silently only when exactly `tries` trials
\* have returned a true result.
C8_TrialAccounting ==
  /\ pc = "loop" => (successes = true_returns /\ discards = false_returns)
  /\ outcome = "returned" => true_returns = tries

\* C9: a trial whose call returned None ends the run with the RuntimeError
\* of the None test; the trial is counted neither as a success nor as a
\* discard and no minimization was run for it.
C9_NoneIsFatal ==
  ret = "None" =>
    /\ pc \in {"check", "done"}
    /\ pc = "done" => outcome = "RuntimeError: received None"
    /\ ~raised
    /\ exctype = "none"
    /\ cands = <<>>
    /\ i = started - 1
    /\ successes + discards = started - 1

\* the run ended on a None result after counted trials
C9_Witness ==
  /\ outcome = "RuntimeError: received None"
  /\ successes >= 1
  /\ discards >= 1

\* C10: the k-th trial (k = successes + discards, from 0) generates every
\* parameter with size k mod max_size, which lies in 0 .. max_size - 1.
C10_SizeSchedule ==
  pc = "call" =>
    /\ started - 1 = successes + discards
    /\ DOMAIN gen_size = Range(GeneratedNames(annotations))
    /\ DOMAIN used = DOMAIN gen_size
    /\ \A n \in DOMAIN gen_size :
         /\ gen_size[n] = (started - 1) % max_size
         /\ 0 <= gen_size[n] /\ gen_size[n] < max_size
         /\ used[n] \in arbitrary(SpecOf(n), (started - 1) % max_size)

\* a trial after the size has wrapped around, generating two parameters
C10_Witness ==
  /\ pc = "call"
  /\ max_size = 2
  /\ started = 4
  /\ size = 1
  /\ DOMAIN gen_size = {"x", "y"}

(***************************************************************************)
(* Properties of the dispatch registry.                                    *)
(***************************************************************************)
\* the registration numbers of the entries whose checker accepts obj
Accepting(obj) ==
  { implementations[k].impl : k \in { j \in 1 .. Len(implementations) :
      CallChecker(implementations[j].checker, obj, implementations[j].typ) = "True" } }

\* the largest number of a non-empty set of numbers
Latest(S) == CHOOSE n \in S : \A m \in S : m <= n

\* C11: a call of the generic function invokes the implementation of the
\* most recently registered entry whose checker accepts the subject, so the
\* later of two implementations registered for one key.
C11_LatestAcceptingWins ==
  ~IsNone(dispatched) =>
    LET d == Val(dispatched)
    IN  Accepting(d.obj) # {} => d.result.invoked = Some(Latest(Accepting(d.obj)))

\* two implementations are registered for the key int with the same checker
\* and the subject matches both: the second is dispatched to
C11_Witness ==
  /\ ~IsNone(dispatched)
  /\ Len(implementations) = 2
  /\ implementations[1].typ = "int" /\ implementations[2].typ = "int"
  /\ implementations[1].checker = implementations[2].checker
  /\ Accepting(Val(dispatched).obj) = {1, 2}
  /\ Val(dispatched).result.invoked = Some(2)

\* the registration numbers of the entries whose checker raises on obj
Raisers(obj) ==
  { implementations[k].impl : k \in { j \in 1 .. Len(implementations) :
      CallChecker(implementations[j].checker, obj, implementations[j].typ) = "TypeError" } }

\* C12: an entry whose checker raises on the subject is not dispatched to,
\* the call does not end with the checker's exception, and the scan goes on
\* to the older entries.
C12_RaisingCheckerSkipped ==
  ~IsNone(dispatched) =>
    LET d == Val(dispatched)
    IN  /\ d.result.raised # "TypeError"
        /\ \A n \in Raisers(d.obj) : d.result.invoked # Some(n)
        /\ Accepting(d.obj) # {} => ~IsNone(d.result.invoked)

\* the newest entry's checker raised on the subject and an older entry was
\* dispatched to
C12_Witness ==
  /\ ~IsNone(dispatched)
  /\ Len(implementations) \in Raisers(Val(dispatched).obj)
  /\ ~IsNone(Val(dispatched).result.invoked)
  /\ Val(Val(dispatched).result.invoked) < Len(implementations)

\* C13: when no entry matches, no implementation is invoked: arbitrary raises
\* NotImplementedError naming the descriptor, shrink returns an empty
\* sequence.
C13_DefaultHandler ==
  ~IsNone(dispatched) =>
    LET d == Val(dispatched)
    IN  Accepting(d.obj) = {} =>
          /\ IsNone(d.result.invoked)
          /\ generic.dispatcher = "arbitrary" =>
               /\ d.result.raised = "NotImplementedError"
               /\ d.result.message = <<"arbitrary", d.obj>>
          /\ generic.dispatcher = "shrink" =>
               /\ d.result.raised = "none"
               /\ d.result.returned = Some(<<>>)

\* shrink was called on a value no entry of a non-empty registry matches
C13_Witness ==
  /\ ~IsNone(dispatched)
  /\ generic.dispatcher = "shrink"
  /\ Len(implementations) >= 2
  /\ Accepting(Val(dispatched).obj) = {}
  /\ Raisers(Val(dispatched).obj) # {}
  /\ Val(dispatched).result.returned = Some(<<>>)

(***************************************************************************)
(* Properties of the ambient size.                                         *)
(***************************************************************************)
\* the ambient size of thread t: whether one is set, and its value
Ambient(t) == [set |-> hasattr(t), val |-> getattr(t)]

\* C14: when a block entered with an explicit size ends, by a return or by
\* an exception, the ambient size of its thread is what it was before the
\* block was entered (the previous value, or none); nested blocks end
\* innermost first, each restoring what it overrode.
C14_SizeRestored ==
  [][\A t \in Threads :
       Len(frames'[t]) < Len(frames[t]) =>
         /\ frames'[t] = Pop(frames[t])
         /\ Ambient(t)' = Top(frames[t]).before
         /\ frames'[t] = <<>> => ~hasattr(t)']_vars

\* an exception has left a block with an explicit size that was nested in a
\* block with another explicit size, which is the ambient size again
C14_Witness ==
  \E t \in Threads :
    /\ unwinding[t]
    /\ Len(frames[t]) = 1
    /\ ~IsNone(ended[t])
    /\ Given(Val(ended[t]).val)
    /\ Given(frames[t][1].val)
    /\ Val(ended[t]).val # frames[t][1].val
    /\ getattr(t) = frames[t][1].val

\* the size of the nearest explicit block of a stack of blocks, None when
\* there is none
RECURSIVE Nearest(_)
Nearest(stack) ==
  IF stack = <<>> THEN None
  ELSE IF ~IsNone(Top(stack).val) THEN Top(stack).val
  ELSE Nearest(Pop(stack))

\* C15: the size a block or an arbitrary call is given is the size of the
\* nearest enclosing explicit one (its own when it has one), 0 included, and
\* the ambient size is that of the nearest explicit block, so that a call
\* without a size leaves it unchanged.
C15_SizeInherited ==
  \A t \in Threads :
    /\ \A k \in 1 .. Len(frames[t]) :
         frames[t][k].yielded = Nearest(SubSeq(frames[t], 1, k))
    /\ getattr(t) = Nearest(frames[t])
    /\ hasattr(t) = ~IsNone(Nearest(frames[t]))

\* a call without a size inside a call with the explicit size 0
C15_Witness ==
  \E t \in Threads :
    /\ Len(frames[t]) = 2
    /\ frames[t][1].val = Some(0)
    /\ frames[t][2].val = None
    /\ frames[t][2].yielded = Some(0)
    /\ getattr(t) = Some(0)

\* the sizes the blocks of thread t were entered with
Established(t) == { frames[t][k].val : k \in 1 .. Len(frames[t]) } \ {None}

\* C16: the ambient size a thread reads is one that thread established, and
\* entering or leaving a block in one thread does not change the ambient
\* size of another.
C16_SizeIsolated ==
  /\ [](\A t \in Threads : hasattr(t) => getattr(t) \in Established(t))
  /\ [][\A t \in Threads :
          frames'[t] = frames[t] => Ambient(t)' = Ambient(t)]_vars

\* both threads are in a block, with different sizes
C16_Witness ==
  /\ getattr("t1") = Some(0)
  /\ getattr("t2") = Some(1)
  /\ Len(frames["t1"]) = 1
  /\ Len(frames["t2"]) = 2

(***************************************************************************)
(* Properties of shrink.                                                   *)
(***************************************************************************)
\* C17: the candidates of one shrink request are finitely many and no two
\* of them are equal: no candidate yielded equals an earlier one, and every
\* candidate of the loop of shrink_int is yielded with an i of smaller
\* magnitude than the one before, so the loop ends.
C17_FiniteNoRepeats ==
  /\ [](\A j, k \in 1 .. Len(yielded) : j < k => yielded[j] # yielded[k])
  /\ [][(AtLoop /\ Len(yielded') > Len(yielded)) => Abs(shrink_i') < Abs(shrink_i)]_vars

\* v halved toward zero n times
RECURSIVE C18_Halved(_, _)
C18_Halved(v, n) ==
  IF n = 0 THEN v
  ELSE LET h == C18_Halved(v, n - 1)
       IN  IF h >= 0 THEN h \div 2 ELSE -((-h) \div 2)

\* the number of candidates shrink(v) yields before it halves: -v, 0
C18_Leading(v) == IF v < 0 THEN 2 ELSE IF v > 0 THEN 1 ELSE 0

\* C18: shrink(v) of an integer v yields -v first when v < 0, then 0 when
\* v # 0, then v - i for i = v halved toward zero once, twice, ..., each of
\* smaller magnitude than v, and ends at the first halving that does not
\* reduce the magnitude; shrink(0) is empty.
C18_IntegerShrink ==
  request.type = "int" =>
    LET v == request.v
        lead == C18_Leading(v)
    IN  /\ \A k \in 1 .. Len(yielded) :
             /\ (k = 1 /\ v < 0) => yielded[k] = -v
             /\ (k = lead /\ v # 0) => yielded[k] = 0
             /\ k > lead =>
                  /\ yielded[k] = v - C18_Halved(v, k - lead)
                  /\ Abs(yielded[k]) < Abs(v)
        /\ shrink_pc = "done" =>
             /\ Len(yielded) >= lead
             /\ ~(Abs(v - C18_Halved(v, Len(yielded) - lead + 1)) < Abs(v))
             /\ v = 0 => yielded = <<>>

\* the positions at which two sequences of one length differ
C19_Differences(a, b) == { p \in 1 .. Len(a) : a[p] # b[p] }

\* c is v with exactly one element replaced by a candidate of its shrink
C19_OneSimplified(v, c) ==
  /\ Len(c) = Len(v)
  /\ \E p \in 1 .. Len(v) :
       /\ C19_Differences(v, c) = {p}
       /\ \E j \in 1 .. Len(shrink(v[p])) : c[p] = shrink(v[p])[j]

\* C19: the first n candidates of shrink of a list of length n are the list
\* without element 0, 1, ..., n - 1, in this order; every later candidate has
\* length n and differs from the list in exactly one position, where it
\* holds a candidate of shrink of that element.
C19_ListShrinkOrder ==
  request.type = "list" =>
    LET v == request.v
        n == Len(request.v)
    IN  /\ \A k \in 1 .. Len(yielded) :
             /\ k <= n => yielded[k] = SubSeq(v, 1, k - 1) \o SubSeq(v, k + 1, n)
             /\ k > n => C19_OneSimplified(v, yielded[k])
        /\ shrink_pc = "done" => Len(yielded) >= n

\* shrink of a list of length 3 has ended, with candidates that simplify the
\* first and the last element
C19_Witness ==
  /\ request.type = "list"
  /\ Len(request.v) = 3
  /\ shrink_pc = "done"
  /\ Len(yielded) > 4
  /\ C19_Differences(request.v, yielded[4]) = {1}
  /\ C19_Differences(request.v, yielded[Len(yielded)]) = {3}

\* C20 as stated: shrink of a tuple of length n yields the n tuples with one
\* element removed before any tuple with a simplified element.
C20_TupleRemovesFirst ==
  request.type = "tuple" =>
    LET v == request.v
        n == Len(request.v)
    IN  /\ \A k \in 1 .. Len(yielded) :
             k <= n => yielded[k] = SubSeq(v, 1, k - 1) \o SubSeq(v, k + 1, n)
        /\ shrink_pc = "done" => Len(yielded) >= n

\* the number of candidates of shrink of the elements of v, added up
RECURSIVE C20_ElementCandidates(_)
C20_ElementCandidates(v) ==
  IF v = <<>> THEN 0
  ELSE Len(shrink(Head(v))) + C20_ElementCandidates(Tail(v))

\* C20, amended: shrink of a tuple of length n yields only tuples of length
\* n that differ from it in exactly one position, where they hold a
\* candidate of shrink of that element; it yields one for every candidate
\* of every element and none with an element removed.
C20_TupleKeepsArity ==
  request.type = "tuple" =>
    /\ \A k \in 1 .. Len(yielded) : C19_OneSimplified(request.v, yielded[k])
    /\ shrink_pc = "done" => Len(yielded) = C20_ElementCandidates(request.v)

\* shrink of a tuple of length 3 has ended, with candidates
C20_Witness ==
  /\ request.type = "tuple"
  /\ Len(request.v) = 3
  /\ shrink_pc = "done"
  /\ Len(yielded) >= 3
  /\ \A k \in 1 .. Len(yielded) : Len(yielded[k]) = 3

(***************************************************************************)
(* Properties of roundrobin.                                               *)
(***************************************************************************)
\* the elements of iterable s among the first m elements emitted
C21_From(s, m) == SelectSeq(SubSeq(emitted, 1, m), LAMBDA e : e.stream = s)

\* iterable s has elements left when m elements have been emitted
C21_Live(s, m) == Len(C21_From(s, m)) < Len(iterables[s])

\* the first iterable after s, in the cyclic order of the arguments, that
\* has elements left when m elements have been emitted
C21_Successor(s, m) ==
  LET k == Len(iterables)
      order == [j \in 1 .. k |-> ((s + j - 1) % k) + 1]
      live == { j \in 1 .. k : C21_Live(order[j], m) }
  IN  order[CHOOSE j \in live : \A j2 \in live : j <= j2]

\* C21: roundrobin emits the elements of every iterable in the iterable's
\* own order, each exactly once by the time it ends; every element comes
\* from the next iterable, in the cyclic order of the arguments, that is not
\* exhausted; between two consecutive elements of one iterable there is at
\* most one element of each other iterable; and the whole sequence is the
\* order in which shrink_sequence and _quickcheck_minimize take candidates.
C21_RoundRobinFair ==
  LET k == Len(iterables)
      n == Len(emitted)
  IN  /\ \A s \in 1 .. k :
           C21_From(s, n) = SubSeq(iterables[s], 1, Len(C21_From(s, n)))
      /\ robin_pc = "done" =>
           /\ \A s \in 1 .. k : C21_From(s, n) = iterables[s]
           /\ emitted = roundrobin(iterables)
      /\ \A m \in 1 .. n :
           emitted[m].stream =
             C21_Successor(IF m = 1 THEN k ELSE emitted[m - 1].stream, m - 1)
      /\ \A a, b \in 1 .. n :
           ( /\ a < b
             /\ emitted[a].stream = emitted[b].stream
             /\ \A c \in a + 1 .. b - 1 : emitted[c].stream # emitted[a].stream )
           => \A s \in 1 .. k :
                Cardinality({ c \in a + 1 .. b - 1 : emitted[c].stream = s }) <= 1

\* roundrobin of three iterables of 1, 3 and 2 elements has ended: the first
\* is exhausted in the second round, the last in the third
C21_Witness ==
  /\ robin_pc = "done"
  /\ Len(iterables) = 3
  /\ Len(iterables[1]) = 1
  /\ Len(iterables[2]) = 3
  /\ Len(iterables[3]) = 2
  /\ Len(emitted) = 6

(***************************************************************************)
(* Properties of the descriptors.                                          *)
(***************************************************************************)
\* the value arbitrary returned for a Float or an Integer, counted in
\* 1 / (Unit * DistSteps) like f
C22_Value ==
  IF Val(descriptor).cls = "Float" THEN Val(arb_result)
  ELSE Val(arb_result) * Unit * DistSteps

\* C22: every value arbitrary returns for a Float or an Integer, at every
\* size from 0 on and at the default size, is at least the min of the
\* descriptor when it has one and at most its max when it has one.
C22_NumericBounds ==
  (arb_pc = "returned" /\ Val(descriptor).cls \in {"Float", "Integer"}) =>
    /\ ~IsNone(Val(descriptor).min) => C22_Value >= Val(Val(descriptor).min) * DistSteps
    /\ ~IsNone(Val(descriptor).max) => C22_Value <= Val(Val(descriptor).max) * DistSteps

\* C23: the list arbitrary returns for a List, at every size from 0 on and
\* at the default size, has at least lengthmin elements (0 when lengthmin
\* is omitted or None) and at most lengthmax elements when lengthmax is
\* given.
C23_ListLength ==
  (arb_pc = "returned" /\ ctor.cls = "List") =>
    /\ Len(Val(arb_result)) * Unit >= (IF IsNone(ctor.lengthmin) THEN 0 ELSE Val(ctor.lengthmin))
    /\ ~IsNone(ctor.lengthmax) => Len(Val(arb_result)) * Unit <= Val(ctor.lengthmax)

\* C24: a call of arbitrary on Constant(v) never ends with an error and
\* returns v, whether the size is given, inherited from the ambient size or
\* absent: the TypeError of the call with a size is followed by the call
\* without one.
C24_ConstantReturnsValue ==
  /\ [](ctor.cls = "Constant" =>
          /\ arb_pc # "raised"
          /\ arb_pc = "returned" => arb_result = Some(ctor.v))
  /\ [][(ctor.cls = "Constant" /\ arb_pc = "TypeError") =>
          (arb_pc' = "returned" /\ arb_result' = Some(ctor.v))]_vars

\* arbitrary(Constant(nan)) has returned inside `with sized(n)`, with no
\* size argument
C24_Witness ==
  /\ ctor = [cls |-> "Constant", v |-> "nan"]
  /\ arb_pc = "returned"
  /\ IsNone(Val(arb_call).size)
  /\ ~IsNone(Val(arb_call).ambient)
  /\ arb_result = Some("nan")

\* the constructor call has a min above its max, a lengthmin above its
\* lengthmax, or a negative length bound
C25_Invalid ==
  \/ /\ ctor.cls \in {"Float", "Integer"}
     /\ ~IsNone(ctor.min) /\ ~IsNone(ctor.max)
     /\ Val(ctor.min) > Val(ctor.max)
  \/ /\ ctor.cls = "List"
     /\ \/ ~IsNone(ctor.lengthmin) /\ ~IsNone(ctor.lengthmax)
           /\ Val(ctor.lengthmin) > Val(ctor.lengthmax)
        \/ ~IsNone(ctor.lengthmin) /\ Val(ctor.lengthmin) < 0
        \/ ~IsNone(ctor.lengthmax) /\ Val(ctor.lengthmax) < 0

\* C25: a constructor call of Float or Integer with min > max, or of List
\* with lengthmin > lengthmax or a negative length bound, raises ValueError:
\* it returns no object, and arbitrary is never called on one.
C25_RaisedAtConstruction ==
  C25_Invalid =>
    /\ arb_pc \in {"new", "ValueError"}
    /\ descriptor = None
    /\ arb_call = None

\* List(..., lengthmin=-1 / Unit) has raised ValueError
C25_Witness ==
  /\ ctor = [cls |-> "List", lengthmin |-> Some(-1), lengthmax |-> None]
  /\ arb_pc = "ValueError"

(***************************************************************************)
(* Further properties of the runner and the minimizer.                     *)
(***************************************************************************)
\* the place of an integer in the order of shrink_int: smaller magnitude
\* first, and of two integers of one magnitude the positive one
C26_IntRank(v) == 2 * Abs(v) + (IF v < 0 THEN 1 ELSE 0)

RECURSIVE C26_RankOver(_, _)
C26_RankOver(u, names) ==
  IF names = {} THEN 0
  ELSE LET n == CHOOSE n \in names : TRUE
       IN  C26_IntRank(u[n]) + C26_RankOver(u, names \ {n})

\* the place of a Used-Arguments Map: the places of its values added up
C26_Rank(u) == C26_RankOver(u, DOMAIN u)

\* C26: the minimization of a deterministic property ends by returning:
\* every commit puts a strictly simpler map in the place of the current
\* one, every other invocation takes a candidate off a finite stream, and
\* the minimizer is left only by its return statement.
C26_MinimizationTerminates ==
  [][(deterministic /\ pc = "minimize") =>
       /\ used' # used => C26_Rank(used') < C26_Rank(used)
       /\ (pc' = "minimize" /\ used' = used) => Len(cands') < Len(cands)
       /\ pc' # "minimize" => (pc' = "reemit" /\ outcome' = "running")]_vars

\* C28: a parameter the caller passes as a keyword argument is never
\* generated, is never in the Used-Arguments Map or in the QuickCheckError,
\* is never a candidate of the minimization, and has the caller's value in
\* every invocation of the property.
C28_PreboundUntouched ==
  \A n \in DOMAIN kwargs :
    /\ n \notin DOMAIN gen_size
    /\ n \notin DOMAIN used
    /\ n \notin DOMAIN used0
    /\ n \notin DOMAIN error_args
    /\ \A k \in 1 .. Len(cands) : cands[k][1] # n
    /\ kwargs_new # EmptyDict => kwargs_new[n] = kwargs[n]
    /\ lastcall # EmptyDict => lastcall[n] = kwargs[n]

\* a run called with y=1 has ended with a QuickCheckError after a
\* minimization that committed a candidate
C28_Witness ==
  /\ kwargs = [n \in {"y"} |-> 1]
  /\ outcome = "QuickCheckError"
  /\ used # used0
  /\ DOMAIN error_args = {"x"}
  /\ lastcall = [x |-> error_args["x"], y |-> 1]

\* every trial call so far has returned a true value or a false one that is
\* not None (or is still running)
C29_Clean ==
  started = true_returns + false_returns + (IF pc = "call" THEN 1 ELSE 0)

\* tries + ceil(max_discard_ratio * tries), for the integers of the model
C29_MaxTrials == tries + max_discard_ratio * tries

\* the steps a run whose trials all return can still take, at most
C29_Variant ==
  3 * (C29_MaxTrials + 1 - started)
    + (CASE pc = "call" -> 3 [] pc = "check" -> 2 [] pc = "loop" -> 1 [] OTHER -> 0)

\* C29: with max_discard_ratio > 0, as long as the property has only
\* returned true values and false values that are not None, the trial index
\* is successes + discards, at most tries + ceil(max_discard_ratio * tries)
\* trials have started, every step brings the end of the call nearer, and
\* the call ends by returning or with the too-many-discards error.
C29_TrialLoopBounded ==
  /\ []((C29_Clean /\ max_discard_ratio > 0) =>
          /\ i = successes + discards
          /\ started <= C29_MaxTrials
          /\ C29_Variant >= 0
          /\ pc = "done" =>
               outcome \in {"returned", "RuntimeError: too many tests discarded"})
  /\ [][(C29_Clean /\ C29_Clean' /\ max_discard_ratio > 0) =>
          C29_Variant' < C29_Variant]_vars

\* a run with tries = 2 and max_discard_ratio = 2 has ended with the
\* too-many-discards error in its fifth trial, after 1 success
C29_Witness ==
  /\ C29_Clean
  /\ tries = 2
  /\ max_discard_ratio = 2
  /\ pc = "done"
  /\ outcome = "RuntimeError: too many tests discarded"
  /\ successes = 1
  /\ discards = 4
  /\ started = 5

(***************************************************************************)
(* Properties of the built-in registrations.                               *)
(***************************************************************************)
\* C27: after the import, shrink of a bool is dispatched to shrink_bool and
\* never to shrink_int, although a bool is an instance of int: shrink(True)
\* yields False and nothing else, shrink(False) yields nothing.
C27_BooleanShrink ==
  (~IsNone(dispatched) /\ Val(dispatched).obj.cls = "bool") =>
    LET expected == IF Val(dispatched).obj.val = 1
                      THEN << [cls |-> "bool", val |-> 0] >>
                      ELSE <<>>
    IN  /\ Val(dispatched).result.invoked = Some("shrink_bool")
        /\ Len(yielded) <= Len(expected)
        /\ yielded = SubSeq(expected, 1, Len(yielded))
        /\ shrink_pc = "done" => yielded = expected

\* shrink(True) has yielded False and ended
C27_Witness ==
  /\ ~IsNone(dispatched)
  /\ Val(dispatched).obj.cls = "bool"
  /\ Val(dispatched).obj.val = 1
  /\ Val(dispatched).result.invoked = Some("shrink_bool")
  /\ shrink_pc = "done"
  /\ yielded = << [cls |-> "bool", val |-> 0] >>

====
